---- MODULE Spec2Model ----
(***************************************************************************)
(* Model of csv_comparator: the character analyzer (analyzer.py) and the   *)
(* CSV comparator (comparator.py).                                         *)
(*                                                                         *)
(* A Python str is a sequence of code points; a single character is a      *)
(* str of length 1 and the absent character is the empty str <<>>.         *)
(* A DataFrame is a record [columns, rows]: columns is the ordered column  *)
(* index, rows the sequence of rows (position = index after reset_index),  *)
(* each row a function from column name to cell.                           *)
(***************************************************************************)
EXTENDS Integers, Sequences, FiniteSets, TLC

VARIABLES
    pc,                 \* position of the modelled call
    str1, str2,         \* arguments of analyze_difference
    analysis,           \* value returned by analyze_difference
    ignore_case,        \* CSVComparator.ignore_case
    ignore_whitespace,  \* CSVComparator.ignore_whitespace
    fs,                 \* file system: path -> loadable DataFrame or BadFile
    df1, df2,           \* frames loaded by compare_files (the objects passed to normalize_dataframes)
    ndf1, ndf2,         \* frames returned by normalize_dataframes
    cell_diffs,         \* compare_files: differences, different_cells after the loop
    result,             \* value returned by compare_files
    target_files,       \* batch_compare: argument
    bi,                 \* batch_compare: number of targets processed so far
    results,            \* batch_compare: results dict, in insertion order
    outcomes            \* batch_compare: what each iteration's compare_files call gave

vars == <<pc, str1, str2, analysis, ignore_case, ignore_whitespace, fs,
          df1, df2, ndf1, ndf2, cell_diffs, result, target_files, bi, results, outcomes>>

(***************************************************************************)
(* Bounds of the explored input space.                                     *)
(***************************************************************************)
MaxLen == 2         \* longest string given to analyze_difference
MaxRows == 2        \* most rows in a loaded frame
MaxCols == 2        \* most columns in a loaded frame
MaxTargets == 3     \* longest target list given to batch_compare

\* Characters used to build the analysed strings:
\* 'A', 'a', 'e', ' ', U+00A0 (no-break space), U+00E9 (e acute),
\* U+0301 (combining acute accent), U+200B (zero width space)
Alphabet == {65, 97, 101, 32, 160, 233, 769, 8203}

None == [none |-> TRUE]
Unused == [unused |-> TRUE]

Range(s) == {s[i] : i \in DOMAIN s}

Max(a, b) == IF a >= b THEN a ELSE b

\* all sequences over S of length 0..n
SeqsUpTo(S, n) == UNION {[1..k -> S] : k \in 0..n}

(***************************************************************************)
(* Python str built-ins used by the code.                                  *)
(***************************************************************************)
\* code points for which str.isspace() is true
SpaceCodes == {9, 10, 11, 12, 13, 28, 29, 30, 31, 32, 133, 160, 5760,
               8232, 8233, 8239, 8287, 12288} \cup (8192..8202)

\* char.isspace() for a str of length 0 or 1 (''.isspace() is False)
isspace(char) == char # <<>> /\ char[1] \in SpaceCodes

\* ord(char)
ord(char) == char[1]

\* assigned code points up to U+3000 for which str.isprintable() is false
NonPrintableCodes ==
    (0..31) \cup (127..160) \cup {173} \cup (1536..1541) \cup {1564, 1757, 1807}
    \cup (2192..2193) \cup {2274, 5760, 6158} \cup (8192..8207) \cup (8232..8239)
    \cup (8287..8292) \cup (8294..8303) \cup {12288}

\* char.isprintable() for a str of length 0 or 1 (''.isprintable() is True)
isprintable(char) == char = <<>> \/ char[1] \notin NonPrintableCodes

\* assigned code points up to U+3000 whose unicodedata.category starts with 'C'
ControlCodes ==
    (0..31) \cup (127..159) \cup {173} \cup (1536..1541) \cup {1564, 1757, 1807}
    \cup (2192..2193) \cup {2274, 6158} \cup (8203..8207) \cup (8234..8238)
    \cup (8288..8292) \cup (8294..8303)

\* s[i] if i < len(s) else ''   (i is the 0-based Python index)
CharAt(s, i) == IF i < Len(s) THEN <<s[i + 1]>> ELSE <<>>

(***************************************************************************)
(* analyzer.py                                                             *)
(***************************************************************************)
\* keys of CharacterAnalyzer.special_chars
special_chars == {32, 160, 8201, 8202, 8203, 8204, 8205, 8232, 8233, 8239,
                  8287, 12288, 9, 10, 13, 12, 11}
                 \cup (8208..8213) \cup (8216..8223)

\* get_char_info(char): {} for the empty str; name is "curated" for a key of
\* special_chars and "" otherwise (hex, repr, unicode_name and category are
\* not modelled)
get_char_info(char) ==
    IF char = <<>> THEN <<>>
    ELSE [char         |-> char,
          ord          |-> ord(char),
          name         |-> IF char[1] \in special_chars THEN "curated" ELSE "",
          is_printable |-> isprintable(char),
          is_space     |-> isspace(char),
          is_control   |-> char[1] \in ControlCodes,
          is_invisible |-> ~isprintable(char) \/ char[1] \in special_chars]

\* "self.get_char_info(char) if char else None"
CharInfoOrNone(char) == IF char # <<>> THEN get_char_info(char) ELSE None

\* a scan that collects only the non-printable characters
_find_special_chars_nonprintable(text) ==
    LET hits == {i \in DOMAIN text : ~isprintable(<<text[i]>>)}
        nth(k) == CHOOSE i \in hits : Cardinality({j \in hits : j < i}) = k - 1
    IN  [k \in 1..Cardinality(hits) |->
            [position |-> nth(k) - 1, char_info |-> get_char_info(<<text[nth(k)]>>)]]

\* _find_special_chars(text): the characters that are keys of special_chars or
\* not printable, in the order of enumerate(text)
_find_special_chars(text) ==
    LET hits == {i \in DOMAIN text :
                    text[i] \in special_chars \/ ~isprintable(<<text[i]>>)}
        nth(k) == CHOOSE i \in hits : Cardinality({j \in hits : j < i}) = k - 1
    IN  [k \in 1..Cardinality(hits) |->
            [position |-> nth(k) - 1, char_info |-> get_char_info(<<text[nth(k)]>>)]]

\* a classification that needs both characters to be non-ASCII
_classify_difference_and(char1, char2) ==
    IF char1 = <<>> THEN "insertion"
    ELSE IF char2 = <<>> THEN "deletion"
    ELSE IF isspace(char1) /\ isspace(char2) THEN "whitespace_substitution"
    ELSE IF isspace(char1) \/ isspace(char2) THEN "whitespace_difference"
    ELSE IF ord(char1) > 127 /\ ord(char2) > 127 THEN "unicode_difference"
    ELSE "character_substitution"

_classify_difference_noprio(char1, char2) ==
    IF char1 = <<>> THEN "insertion"
    ELSE IF char2 = <<>> THEN "deletion"
    ELSE IF ord(char1) > 127 \/ ord(char2) > 127 THEN "unicode_difference"
    ELSE IF isspace(char1) /\ isspace(char2) THEN "whitespace_substitution"
    ELSE IF isspace(char1) \/ isspace(char2) THEN "whitespace_difference"
    ELSE "character_substitution"

_classify_difference_swapped(char1, char2) ==
    IF char1 = <<>> THEN "deletion"
    ELSE IF char2 = <<>> THEN "insertion"
    ELSE IF isspace(char1) /\ isspace(char2) THEN "whitespace_substitution"
    ELSE IF isspace(char1) \/ isspace(char2) THEN "whitespace_difference"
    ELSE IF ord(char1) > 127 \/ ord(char2) > 127 THEN "unicode_difference"
    ELSE "character_substitution"

_classify_difference(char1, char2) ==
    IF char1 = <<>> THEN "insertion"
    ELSE IF char2 = <<>> THEN "deletion"
    ELSE IF isspace(char1) /\ isspace(char2) THEN "whitespace_substitution"
    ELSE IF isspace(char1) \/ isspace(char2) THEN "whitespace_difference"
    ELSE IF ord(char1) > 127 \/ ord(char2) > 127 THEN "unicode_difference"
    ELSE "character_substitution"

\* the loop of find_string_differences from index i on, differences so far in acc
RECURSIVE DiffLoop(_, _, _, _)
DiffLoop(s1, s2, i, acc) ==
    IF i >= Max(Len(s1), Len(s2)) THEN acc
    ELSE LET char1 == CharAt(s1, i)
             char2 == CharAt(s2, i)
         IN  IF char1 # char2
             THEN DiffLoop(s1, s2, i + 1,
                      Append(acc, [position |-> i, char1 |-> char1, char2 |-> char2,
                                   char1_info |-> CharInfoOrNone(char1),
                                   char2_info |-> CharInfoOrNone(char2),
                                   type |-> _classify_difference(char1, char2)]))
             ELSE DiffLoop(s1, s2, i + 1, acc)

\* a diff that resynchronises after a one-character insertion at the front
find_string_differences_realign(s1, s2) ==
    IF Len(s2) = Len(s1) + 1 /\ Len(s1) > 0 /\ SubSeq(s2, 2, Len(s2)) = s1
    THEN <<[position |-> 0, char1 |-> <<>>, char2 |-> <<s2[1]>>,
            char1_info |-> None, char2_info |-> get_char_info(<<s2[1]>>),
            type |-> "insertion"]>>
    ELSE DiffLoop(s1, s2, 0, <<>>)

\* a diff without the test char1 != char2: every index is recorded
find_string_differences_every(s1, s2) ==
    [k \in 1..Max(Len(s1), Len(s2)) |->
        [position |-> k - 1, char1 |-> CharAt(s1, k - 1), char2 |-> CharAt(s2, k - 1),
         char1_info |-> CharInfoOrNone(CharAt(s1, k - 1)),
         char2_info |-> CharInfoOrNone(CharAt(s2, k - 1)),
         type |-> _classify_difference(CharAt(s1, k - 1), CharAt(s2, k - 1))]]

find_string_differences(s1, s2) == DiffLoop(s1, s2, 0, <<>>)

\* a report whose are_equal looks at the two lengths only
analyze_difference_lenonly(s1, s2) ==
    LET differences == find_string_differences(s1, s2)
        types == {differences[k].type : k \in DOMAIN differences}
    IN  [length_diff |-> Len(s2) - Len(s1), are_equal |-> Len(s1) = Len(s2),
         str1_length |-> Len(s1), str2_length |-> Len(s2),
         differences |-> differences, diff_count |-> Len(differences),
         diff_positions |-> [k \in DOMAIN differences |-> differences[k].position],
         diff_types |-> [t \in types |-> Cardinality({k \in DOMAIN differences : differences[k].type = t})],
         str1_special_chars |-> _find_special_chars(s1),
         str2_special_chars |-> _find_special_chars(s2)]

\* analyze_difference(str1, str2); the encoding probes str1_encoding_info and
\* str2_encoding_info are not modelled
analyze_difference(s1, s2) ==
    LET differences == find_string_differences(s1, s2)
        types == {differences[k].type : k \in DOMAIN differences}
    IN  [length_diff    |-> Len(s2) - Len(s1),
         are_equal      |-> s1 = s2,
         str1_length    |-> Len(s1),
         str2_length    |-> Len(s2),
         differences    |-> differences,
         diff_count     |-> Len(differences),
         diff_positions |-> [k \in DOMAIN differences |-> differences[k].position],
         diff_types     |-> [t \in types |->
                                Cardinality({k \in DOMAIN differences : differences[k].type = t})],
         str1_special_chars |-> _find_special_chars(s1),
         str2_special_chars |-> _find_special_chars(s2)]

(***************************************************************************)
(* comparator.py: str and pandas operations used by the code.              *)
(***************************************************************************)
\* c.lower() for one code point (ASCII and Latin-1 capital letters)
lower_code(c) ==
    IF c \in 65..90 THEN c + 32
    ELSE IF c \in (192..222) \ {215} THEN c + 32
    ELSE c

\* s.lower()
lower(s) == [i \in DOMAIN s |-> lower_code(s[i])]

\* s.strip(): s without its leading and trailing isspace() characters
strip(s) ==
    LET keep == {i \in DOMAIN s : s[i] \notin SpaceCodes}
    IN  IF keep = {} THEN <<>>
        ELSE SubSeq(s, CHOOSE i \in keep : \A j \in keep : i <= j,
                       CHOOSE i \in keep : \A j \in keep : i >= j)

\* the missing-value marker pandas puts in a cell that has no data
NaN == <<-1>>

\* str(cell): a str cell is itself, str(nan) is 'nan'
py_str(v) == IF v = NaN THEN <<110, 97, 110>> ELSE v

\* a < b for two str (code point by code point, a proper prefix is smaller)
str_lt(a, b) ==
    \E i \in 1..(Len(a) + 1) :
        /\ \A j \in 1..(i - 1) : j <= Len(b) /\ a[j] = b[j]
        /\ \/ i = Len(a) + 1 /\ Len(b) >= i
           \/ i <= Len(a) /\ i <= Len(b) /\ a[i] < b[i]

\* a listing of the names shortest first, names of equal length in str order
RECURSIVE sorted_bylen(_)
sorted_bylen(S) ==
    IF S = {} THEN <<>>
    ELSE LET m == CHOOSE x \in S : \A y \in S \ {x} :
                      Len(x) < Len(y) \/ (Len(x) = Len(y) /\ str_lt(x, y))
         IN  <<m>> \o sorted_bylen(S \ {m})

\* sorted(S) for a set S of str
RECURSIVE sorted(_)
sorted(S) ==
    IF S = {} THEN <<>>
    ELSE LET m == CHOOSE x \in S : \A y \in S \ {x} : str_lt(x, y)
         IN  <<m>> \o sorted(S \ {m})

\* len(df)
NRows(df) == Len(df.rows)

\* col in df.columns
HasColumn(df, col) == col \in Range(df.columns)

\* df[col] = ''  for a column the frame does not have: appended as last column
SetColumnEmpty(df, col) ==
    [columns |-> Append(df.columns, col),
     rows    |-> [r \in DOMAIN df.rows |->
                    [c \in Range(df.columns) \cup {col} |->
                        IF c = col THEN <<>> ELSE df.rows[r][c]]]]

\* the loop "for col in all_columns: if col not in df.columns: df[col] = ''",
\* order being the order in which the set all_columns is iterated
RECURSIVE AddMissingColumns(_, _)
AddMissingColumns(df, order) ==
    IF order = <<>> THEN df
    ELSE AddMissingColumns(IF HasColumn(df, Head(order)) THEN df
                           ELSE SetColumnEmpty(df, Head(order)),
                           Tail(order))

\* df.reindex(columns=cols): a new frame; a column df lacks is filled with NaN
reindex(df, cols) ==
    [columns |-> cols,
     rows    |-> [r \in DOMAIN df.rows |->
                    [c \in Range(cols) |->
                        IF HasColumn(df, c) THEN df.rows[r][c] ELSE NaN]]]

\* the empty rows put in front of the frame's own rows
PadRows_front(df, max_rows) ==
    IF NRows(df) < max_rows
    THEN [columns |-> df.columns,
          rows    |-> [r \in 1..(max_rows - NRows(df)) |->
                          [c \in Range(df.columns) |-> <<>>]] \o df.rows]
    ELSE df

\* pd.concat([df, pd.DataFrame('', index=range(len(df), max_rows), columns=df.columns)])
\* followed by reset_index(drop=True)
PadRows(df, max_rows) ==
    IF NRows(df) < max_rows
    THEN [columns |-> df.columns,
          rows    |-> df.rows \o [r \in 1..(max_rows - NRows(df)) |->
                                     [c \in Range(df.columns) |-> <<>>]]]
    ELSE df

\* all orders in which a set can be iterated
Orders(S) == {o \in [1..Cardinality(S) -> S] : Range(o) = S}

\* orders in which "for col in all_columns" may visit the columns of two
\* frames with column sets c1 and c2.  The loop acts only on the columns one of
\* the frames lacks, and what it leaves behind depends only on the order among
\* the columns the first frame lacks and the order among those the second
\* lacks: one order is listed for every such pair.
IterationOrders(c1, c2) ==
    {sorted(c1 \cap c2) \o o1 \o o2 : o1 \in Orders(c2 \ c1), o2 \in Orders(c1 \ c2)}

\* normalize_dataframes that keeps the first frame's own column order
normalize_dataframes_nosort(d1, d2, order) ==
    LET all_columns == Range(d1.columns) \cup Range(d2.columns)
        m1 == AddMissingColumns(d1, order)
        m2 == AddMissingColumns(d2, order)
        r1 == reindex(m1, m1.columns)
        r2 == reindex(m2, m1.columns)
        max_rows == Max(NRows(r1), NRows(r2))
    IN  [arg1 |-> m1, arg2 |-> m2,
         out1 |-> PadRows(r1, max_rows),
         out2 |-> PadRows(r2, max_rows)]

\* normalize_dataframes(df1, df2): arg1, arg2 are the caller's two frames as
\* the call leaves them, out1, out2 the two frames it returns
normalize_dataframes(d1, d2, order) ==
    LET all_columns == Range(d1.columns) \cup Range(d2.columns)
        m1 == AddMissingColumns(d1, order)
        m2 == AddMissingColumns(d2, order)
        r1 == reindex(m1, sorted(all_columns))
        r2 == reindex(m2, sorted(all_columns))
        max_rows == Max(NRows(r1), NRows(r2))
    IN  [arg1 |-> m1, arg2 |-> m2,
         out1 |-> PadRows(r1, max_rows),
         out2 |-> PadRows(r2, max_rows)]

\* a preprocessing that never trims
Preprocess_nostrip(val, icase, iws) ==
    IF icase THEN lower(val) ELSE val

\* the preprocessing of compare_cells applied to one value
Preprocess(val, icase, iws) ==
    LET v == IF iws THEN strip(val) ELSE val
    IN  IF icase THEN lower(v) ELSE v

\* compare_cells that analyses the values it was given, not the preprocessed ones
compare_cells_rawdiff(val1, val2, icase, iws) ==
    IF Preprocess(val1, icase, iws) = Preprocess(val2, icase, iws)
    THEN [is_same |-> TRUE, analysis |-> <<>>]
    ELSE [is_same |-> FALSE, analysis |-> analyze_difference(val1, val2)]

\* compare_cells that lower-cases only the first value
compare_cells_halfcase(val1, val2, icase, iws) ==
    LET v1 == Preprocess(val1, icase, iws)
        v2 == Preprocess(val2, FALSE, iws)
    IN  IF v1 = v2 THEN [is_same |-> TRUE, analysis |-> <<>>]
        ELSE [is_same |-> FALSE, analysis |-> analyze_difference(v1, v2)]

\* compare_cells(val1, val2) -> (is_same, analysis)
compare_cells(val1, val2, icase, iws) ==
    LET v1 == Preprocess(val1, icase, iws)
        v2 == Preprocess(val2, icase, iws)
    IN  IF v1 = v2 THEN [is_same |-> TRUE, analysis |-> <<>>]
        ELSE [is_same |-> FALSE, analysis |-> analyze_difference(v1, v2)]

\* the CellDifference built for a differing cell
MakeDifference(row, col_idx, col_name, val1, val2, an) ==
    [row |-> row, col |-> col_idx, col_name |-> col_name,
     original |-> val1, target |-> val2,
     char_diff_positions |-> an.diff_positions,
     unicode_analysis |-> an]

\* the double loop with the column loop outside and the row loop inside
RECURSIVE CellLoop_colmajor(_, _, _, _, _, _)
CellLoop_colmajor(d1, d2, icase, iws, n, acc) ==
    LET ncols == Len(d1.columns)
    IN  IF n >= NRows(d1) * ncols THEN acc
        ELSE LET row == n % NRows(d1)
                 col_idx == n \div NRows(d1)
                 col_name == d1.columns[col_idx + 1]
                 val1 == py_str(d1.rows[row + 1][d1.columns[col_idx + 1]])
                 val2 == py_str(d2.rows[row + 1][d2.columns[col_idx + 1]])
                 cmp == compare_cells(val1, val2, icase, iws)
             IN  IF cmp.is_same
                 THEN CellLoop_colmajor(d1, d2, icase, iws, n + 1, acc)
                 ELSE CellLoop_colmajor(d1, d2, icase, iws, n + 1,
                          Append(acc, MakeDifference(row, col_idx, col_name,
                                                     val1, val2, cmp.analysis)))

\* the double loop of compare_files over the aligned frames, in the order the
\* code visits the cells; n counts the cells visited so far, acc the differences
RECURSIVE CellLoop(_, _, _, _, _, _)
CellLoop(d1, d2, icase, iws, n, acc) ==
    LET ncols == Len(d1.columns)
    IN  IF n >= NRows(d1) * ncols THEN acc
        ELSE LET row == n \div ncols
                 col_idx == n % ncols
                 col_name == d1.columns[col_idx + 1]
                 val1 == py_str(d1.rows[row + 1][d1.columns[col_idx + 1]])
                 val2 == py_str(d2.rows[row + 1][d2.columns[col_idx + 1]])
                 cmp == compare_cells(val1, val2, icase, iws)
             IN  IF cmp.is_same
                 THEN CellLoop(d1, d2, icase, iws, n + 1, acc)
                 ELSE CellLoop(d1, d2, icase, iws, n + 1,
                          Append(acc, MakeDifference(row, col_idx, col_name,
                                                     val1, val2, cmp.analysis)))

\* a ratio that reports 100% when there is no cell at all
Ratio_one(num, den) == IF den > 0 THEN [num |-> num, den |-> den] ELSE [num |-> 1, den |-> 1]

\* identical_cells / total_cells if total_cells > 0 else 0, kept as a fraction
Ratio(num, den) == IF den > 0 THEN [num |-> num, den |-> den] ELSE [num |-> 0, den |-> 1]

\* a ComparisonResult whose total_cells is the row count alone
MakeResult_rows(d1, d2, differences) ==
    LET total_cells == NRows(d1)
        different_cells == Len(differences)
        identical_cells == total_cells - different_cells
    IN  [similarity      |-> Ratio(identical_cells, total_cells),
         total_cells     |-> total_cells,
         different_cells |-> different_cells,
         identical_cells |-> identical_cells,
         differences     |-> differences,
         file_info       |-> [base_file   |-> [rows |-> NRows(d1), columns |-> Len(d1.columns)],
                              target_file |-> [rows |-> NRows(d2), columns |-> Len(d2.columns)]],
         summary         |-> [accuracy        |-> Ratio(identical_cells, total_cells),
                              total_cells     |-> total_cells,
                              identical_cells |-> identical_cells,
                              different_cells |-> different_cells,
                              difference_rate |-> Ratio(different_cells, total_cells)]]

\* the ComparisonResult compare_files builds from the aligned frames and the
\* differences found (file size and detected encoding are not modelled)
MakeResult(d1, d2, differences) ==
    LET total_cells == NRows(d1) * Len(d1.columns)
        different_cells == Len(differences)
        identical_cells == total_cells - different_cells
    IN  [similarity      |-> Ratio(identical_cells, total_cells),
         total_cells     |-> total_cells,
         different_cells |-> different_cells,
         identical_cells |-> identical_cells,
         differences     |-> differences,
         file_info       |-> [base_file   |-> [rows |-> NRows(d1), columns |-> Len(d1.columns)],
                              target_file |-> [rows |-> NRows(d2), columns |-> Len(d2.columns)]],
         summary         |-> [accuracy        |-> Ratio(identical_cells, total_cells),
                              total_cells     |-> total_cells,
                              identical_cells |-> identical_cells,
                              different_cells |-> different_cells,
                              difference_rate |-> Ratio(different_cells, total_cells)]]

(***************************************************************************)
(* Files and the frames load_csv returns for them.                         *)
(***************************************************************************)
\* column names: "A", "AB", "B"
ColNames == {<<65>>, <<65, 66>>, <<66>>}

\* cell values: "a", "A", "a ", U+00A0 + "A"
Vals == <<(<<97>>), (<<65>>), (<<97, 32>>), (<<160, 65>>)>>

\* content of a path load_csv cannot read (missing, empty or undecodable file)
BadFile == [bad |-> TRUE]

\* a frame as load_csv returns it: unique column names cols, n rows, every
\* cell a str; the cells run through Vals starting at offset k
Frame(cols, n, k) ==
    [columns |-> cols,
     rows    |-> [r \in 1..n |->
                    [c \in Range(cols) |->
                        LET ci == CHOOSE i \in DOMAIN cols : cols[i] = c
                        IN  Vals[((k + (r - 1) * Len(cols) + (ci - 1)) % Len(Vals)) + 1]]]]

ColumnLists ==
    {cs \in SeqsUpTo(ColNames, MaxCols) :
        Len(cs) >= 1 /\ \A i, j \in DOMAIN cs : i # j => cs[i] # cs[j]}

Frames == {Frame(cs, n, k) : cs \in ColumnLists, n \in 0..MaxRows, k \in 0..(Len(Vals) - 1)}

BaseFile == "base"
TargetFile == "t1"

\* load_csv(path): the frame, or Raised when the file cannot be read
Raised == [raised |-> TRUE]
load_csv(files, path) == IF files[path] = BadFile THEN Raised ELSE files[path]

(***************************************************************************)
(* Specification of one call compare_files(BaseFile, TargetFile).          *)
(***************************************************************************)
Init ==
    /\ pc = "start"
    /\ ignore_case \in BOOLEAN
    /\ ignore_whitespace \in BOOLEAN
    /\ fs \in [{BaseFile, TargetFile} -> Frames \cup {BadFile}]
    /\ df1 = Unused
    /\ df2 = Unused
    /\ ndf1 = Unused
    /\ ndf2 = Unused
    /\ cell_diffs = Unused
    /\ result = Unused
    /\ str1 = <<>>
    /\ str2 = <<>>
    /\ analysis = Unused
    /\ target_files = <<>>
    /\ bi = 0
    /\ results = <<>>
    /\ outcomes = <<>>

\* df1 = self.load_csv(base_file); df2 = self.load_csv(target_file)
LoadFiles ==
    /\ pc = "start"
    /\ load_csv(fs, BaseFile) # Raised
    /\ load_csv(fs, TargetFile) # Raised
    /\ df1' = load_csv(fs, BaseFile)
    /\ df2' = load_csv(fs, TargetFile)
    /\ pc' = "loaded"
    /\ UNCHANGED <<str1, str2, analysis, ignore_case, ignore_whitespace, fs,
                   ndf1, ndf2, cell_diffs, result, target_files, bi, results, outcomes>>

\* one of the two load_csv calls raises: compare_files propagates the exception
LoadFails ==
    /\ pc = "start"
    /\ load_csv(fs, BaseFile) = Raised \/ load_csv(fs, TargetFile) = Raised
    /\ result' = Raised
    /\ pc' = "raised"
    /\ UNCHANGED <<str1, str2, analysis, ignore_case, ignore_whitespace, fs,
                   df1, df2, ndf1, ndf2, cell_diffs, target_files, bi, results, outcomes>>

\* df1, df2 = self.normalize_dataframes(df1, df2); the frames passed in are
\* kept in df1, df2 and the returned ones in ndf1, ndf2
NormalizeDataframes ==
    /\ pc = "loaded"
    /\ \E order \in IterationOrders(Range(df1.columns), Range(df2.columns)) :
          LET n == normalize_dataframes(df1, df2, order)
          IN  /\ df1' = n.arg1
              /\ df2' = n.arg2
              /\ ndf1' = n.out1
              /\ ndf2' = n.out2
    /\ pc' = "normalized"
    /\ UNCHANGED <<str1, str2, analysis, ignore_case, ignore_whitespace, fs,
                   cell_diffs, result, target_files, bi, results, outcomes>>

\* the loop over rows and columns
CompareAllCells ==
    /\ pc = "normalized"
    /\ cell_diffs' = CellLoop(ndf1, ndf2, ignore_case, ignore_whitespace, 0, <<>>)
    /\ pc' = "compared"
    /\ UNCHANGED <<str1, str2, analysis, ignore_case, ignore_whitespace, fs,
                   df1, df2, ndf1, ndf2, result, target_files, bi, results, outcomes>>

\* similarity, file_info, summary and the returned ComparisonResult
ReturnResult ==
    /\ pc = "compared"
    /\ result' = MakeResult(ndf1, ndf2, cell_diffs)
    /\ pc' = "done"
    /\ UNCHANGED <<str1, str2, analysis, ignore_case, ignore_whitespace, fs,
                   df1, df2, ndf1, ndf2, cell_diffs, target_files, bi, results, outcomes>>

\* reporter.print_summary(result): Printed, or Raised when an expression of
\* the summary raises; line 31 divides different_cells by total_cells
Printed == [printed |-> TRUE]
print_summary(res) == IF res.total_cells = 0 THEN Raised ELSE Printed

\* cli.main, command 'compare', after compare_files returned: the summary is
\* printed and the reports are written
CliPrintSummary ==
    /\ pc = "done"
    /\ print_summary(result) = Printed
    /\ pc' = "cli_reported"
    /\ UNCHANGED <<str1, str2, analysis, ignore_case, ignore_whitespace, fs,
                   df1, df2, ndf1, ndf2, cell_diffs, result, target_files, bi, results, outcomes>>

\* cli.main, "except Exception": compare_files or print_summary raised, the
\* error is printed and the process exits with status 1
CliFails ==
    /\ \/ pc = "raised"
       \/ pc = "done" /\ print_summary(result) = Raised
    /\ pc' = "cli_exit1"
    /\ UNCHANGED <<str1, str2, analysis, ignore_case, ignore_whitespace, fs,
                   df1, df2, ndf1, ndf2, cell_diffs, result, target_files, bi, results, outcomes>>

Next ==
    \/ LoadFiles
    \/ LoadFails
    \/ NormalizeDataframes
    \/ CompareAllCells
    \/ ReturnResult
    \/ CliPrintSummary
    \/ CliFails

Spec == Init /\ [][Next]_vars

(***************************************************************************)
(* compare_files as one call, and batch_compare.                           *)
(***************************************************************************)
\* compare_files(base_file, target_file): the ComparisonResult, or Raised when
\* a load raises.  The frames normalize_dataframes returns do not depend on
\* the order in which it iterates all_columns, so any order serves here.
compare_files(files, base_file, target_file, icase, iws) ==
    IF load_csv(files, base_file) = Raised \/ load_csv(files, target_file) = Raised
    THEN Raised
    ELSE LET l1 == load_csv(files, base_file)
             l2 == load_csv(files, target_file)
             order == sorted(Range(l1.columns) \cup Range(l2.columns))
             n == normalize_dataframes(l1, l2, order)
         IN  MakeResult(n.out1, n.out2, CellLoop(n.out1, n.out2, icase, iws, 0, <<>>))

\* a mapping that puts a new key in front of the older ones
dict_set_front(d, key, value) ==
    IF \E i \in DOMAIN d : d[i].key = key
    THEN [i \in DOMAIN d |-> IF d[i].key = key THEN [key |-> key, value |-> value] ELSE d[i]]
    ELSE <<[key |-> key, value |-> value]>> \o d

\* a mapping in which a key that is already there keeps its first value
dict_set_keepfirst(d, key, value) ==
    IF \E i \in DOMAIN d : d[i].key = key
    THEN d
    ELSE Append(d, [key |-> key, value |-> value])

\* d[key] = value on a dict kept as the sequence of its items in insertion
\* order: an existing key keeps its place, a new key goes last
dict_set(d, key, value) ==
    IF \E i \in DOMAIN d : d[i].key = key
    THEN [i \in DOMAIN d |-> IF d[i].key = key THEN [key |-> key, value |-> value] ELSE d[i]]
    ELSE Append(d, [key |-> key, value |-> value])

\* a batch that records nothing for a target whose comparison raised
batch_record_dropfailed(d, target_file, outcome) ==
    IF outcome = Raised THEN d ELSE dict_set(d, target_file, outcome)

\* the try / except of batch_compare: the result, or None when compare_files raised
batch_record(d, target_file, outcome) ==
    dict_set(d, target_file, IF outcome = Raised THEN None ELSE outcome)

\* a batch that loads the base once and keeps the frame, with the columns
\* normalize_dataframes added to it for the earlier targets
batch_outcome_cachedbase(files, base_file, targets, k, icase, iws) ==
    IF load_csv(files, base_file) = Raised \/ load_csv(files, targets[k]) = Raised
    THEN Raised
    ELSE LET earlier == UNION {Range(load_csv(files, targets[j]).columns) :
                                 j \in {i \in 1..(k - 1) : load_csv(files, targets[i]) # Raised}}
             l1 == AddMissingColumns(load_csv(files, base_file), sorted(earlier))
             l2 == load_csv(files, targets[k])
             order == sorted(Range(l1.columns) \cup Range(l2.columns))
             n == normalize_dataframes(l1, l2, order)
         IN  MakeResult(n.out1, n.out2, CellLoop(n.out1, n.out2, icase, iws, 0, <<>>))

\* the call of the k-th iteration, self.compare_files(base_file, target_file):
\* it takes the two paths and the files as they are at that moment, nothing
\* from the earlier iterations
batch_outcome(files, base_file, targets, k, icase, iws) ==
    compare_files(files, base_file, targets[k], icase, iws)

TargetPaths == {"t1", "t2", "t3"}

\* contents of the files of a batch: unreadable, or one of two frames
BatchContents ==
    {BadFile, Frame(<<(<<65>>)>>, 1, 0), Frame(<<(<<66>>), (<<65>>)>>, 2, 1)}

InitBatch ==
    /\ pc = "batch"
    /\ ignore_case \in BOOLEAN
    /\ ignore_whitespace \in BOOLEAN
    /\ fs \in [{BaseFile} \cup TargetPaths -> BatchContents]
    /\ target_files \in SeqsUpTo(TargetPaths, MaxTargets)
    /\ bi = 0
    /\ results = <<>>
    /\ outcomes = <<>>
    /\ df1 = Unused
    /\ df2 = Unused
    /\ ndf1 = Unused
    /\ ndf2 = Unused
    /\ cell_diffs = Unused
    /\ result = Unused
    /\ str1 = <<>>
    /\ str2 = <<>>
    /\ analysis = Unused

\* one iteration of "for target_file in target_files"
BatchIteration ==
    /\ pc = "batch"
    /\ bi < Len(target_files)
    /\ LET target_file == target_files[bi + 1]
           outcome == batch_outcome(fs, BaseFile, target_files, bi + 1,
                                    ignore_case, ignore_whitespace)
       IN  /\ results' = batch_record(results, target_file, outcome)
           /\ outcomes' = Append(outcomes, outcome)
    /\ bi' = bi + 1
    /\ UNCHANGED <<pc, str1, str2, analysis, ignore_case, ignore_whitespace, fs,
                   df1, df2, ndf1, ndf2, cell_diffs, result, target_files>>

\* return results
BatchReturn ==
    /\ pc = "batch"
    /\ bi = Len(target_files)
    /\ pc' = "batch_done"
    /\ UNCHANGED <<str1, str2, analysis, ignore_case, ignore_whitespace, fs,
                   df1, df2, ndf1, ndf2, cell_diffs, result, target_files, bi, results, outcomes>>

NextBatch ==
    \/ BatchIteration
    \/ BatchReturn

SpecBatch == InitBatch /\ [][NextBatch]_vars

\* a batch whose target files are rewritten on disk while it runs: every
\* compare_files call reads the files anew, so two occurrences of one target
\* can meet different contents
RewrittenPaths == {"t1", "t2"}

InitBatchRewrite ==
    /\ pc = "batch"
    /\ ignore_case = FALSE
    /\ ignore_whitespace = FALSE
    /\ fs \in [{BaseFile} \cup RewrittenPaths -> BatchContents]
    /\ target_files \in SeqsUpTo(RewrittenPaths, MaxTargets)
    /\ bi = 0
    /\ results = <<>>
    /\ outcomes = <<>>
    /\ df1 = Unused
    /\ df2 = Unused
    /\ ndf1 = Unused
    /\ ndf2 = Unused
    /\ cell_diffs = Unused
    /\ result = Unused
    /\ str1 = <<>>
    /\ str2 = <<>>
    /\ analysis = Unused

\* another process replaces a target file between two iterations
FileRewritten ==
    /\ pc = "batch"
    /\ \E path \in RewrittenPaths, content \in BatchContents :
          /\ content # fs[path]
          /\ fs' = [fs EXCEPT ![path] = content]
    /\ UNCHANGED <<pc, str1, str2, analysis, ignore_case, ignore_whitespace,
                   df1, df2, ndf1, ndf2, cell_diffs, result, target_files, bi, results, outcomes>>

NextBatchRewrite ==
    \/ BatchIteration
    \/ BatchReturn
    \/ FileRewritten

SpecBatchRewrite == InitBatchRewrite /\ [][NextBatchRewrite]_vars

(***************************************************************************)
(* Specification of one call analyze_difference(str1, str2).               *)
(***************************************************************************)
Strings == SeqsUpTo(Alphabet, MaxLen)

InitStr ==
    /\ pc = "analyze"
    /\ str1 \in Strings
    /\ str2 \in Strings
    /\ analysis = Unused
    /\ ignore_case = FALSE
    /\ ignore_whitespace = FALSE
    /\ fs = Unused
    /\ df1 = Unused
    /\ df2 = Unused
    /\ ndf1 = Unused
    /\ ndf2 = Unused
    /\ cell_diffs = Unused
    /\ result = Unused
    /\ target_files = <<>>
    /\ bi = 0
    /\ results = <<>>
    /\ outcomes = <<>>

AnalyzeDifference ==
    /\ pc = "analyze"
    /\ analysis' = analyze_difference(str1, str2)
    /\ pc' = "analyzed"
    /\ UNCHANGED <<str1, str2, ignore_case, ignore_whitespace, fs, df1, df2,
                   ndf1, ndf2, cell_diffs, result, target_files, bi, results, outcomes>>

NextStr == AnalyzeDifference

SpecStr == InitStr /\ [][NextStr]_vars

(***************************************************************************)
(* Specification of analyze_difference on one-character strings drawn from *)
(* the characters the curated table is about.                              *)
(***************************************************************************)
\* code points the design lists for the curated table: U+00A0, U+2000..U+200D,
\* U+2028, U+2029, U+202F, U+205F, U+3000, tab, newline, carriage return,
\* form feed, vertical tab, U+2010..U+2015, U+2018..U+201F
ListedCodes ==
    {160, 8232, 8233, 8239, 8287, 12288, 9, 10, 13, 12, 11}
    \cup (8192..8205) \cup (8208..8213) \cup (8216..8223)

\* the listed code points, the keys of the table, and a few other characters
CharCodes == ListedCodes \cup special_chars \cup {48, 65, 97, 173, 233, 769}

InitChar ==
    /\ pc = "analyze"
    /\ str1 \in {<<c>> : c \in CharCodes}
    /\ str2 \in {<<>>, <<97>>}
    /\ analysis = Unused
    /\ ignore_case = FALSE
    /\ ignore_whitespace = FALSE
    /\ fs = Unused
    /\ df1 = Unused
    /\ df2 = Unused
    /\ ndf1 = Unused
    /\ ndf2 = Unused
    /\ cell_diffs = Unused
    /\ result = Unused
    /\ target_files = <<>>
    /\ bi = 0
    /\ results = <<>>
    /\ outcomes = <<>>

SpecChar == InitChar /\ [][NextStr]_vars

(***************************************************************************)
(* Properties of analyze_difference (checked under SpecStr).               *)
(***************************************************************************)
Analyzed == pc = "analyzed"

MinLen == IF Len(str1) <= Len(str2) THEN Len(str1) ELSE Len(str2)
MaxStrLen == Max(Len(str1), Len(str2))

\* the recorded differences whose position is i
DiffsAt(i) == {k \in DOMAIN analysis.differences : analysis.differences[k].position = i}

\* C1: when the two strings have the same length and agree at every index
\* (in particular analyze_difference(s, s), s possibly empty), the report has
\* are_equal = true, an empty differences list and diff_count = 0.
C1_EqualStringsNoDifference ==
    (Analyzed /\ Len(str1) = Len(str2)
              /\ \A i \in 1..Len(str1) : str1[i] = str2[i])
        => /\ analysis.are_equal = TRUE
           /\ analysis.differences = <<>>
           /\ analysis.diff_count = 0

C1_Witness ==
    /\ Analyzed
    /\ str1 = str2
    /\ Len(str1) >= 1
    /\ analysis.are_equal = TRUE
    /\ analysis.diff_count = 0

\* C2: a recorded difference between two present characters that are both
\* whitespace has kind whitespace_substitution, and one where exactly one of
\* them is whitespace has kind whitespace_difference, whatever their code
\* points: never unicode_difference.
C2_WhitespaceBeforeUnicode ==
    Analyzed =>
        \A k \in DOMAIN analysis.differences :
            LET d == analysis.differences[k]
                ws1 == d.char1[1] \in SpaceCodes
                ws2 == d.char2[1] \in SpaceCodes
            IN  (d.char1 # <<>> /\ d.char2 # <<>>) =>
                    /\ (ws1 /\ ws2) => d.type = "whitespace_substitution"
                    /\ (ws1 # ws2) => d.type = "whitespace_difference"
                    /\ (ws1 \/ ws2) => d.type # "unicode_difference"

\* U+00A0 against ' ' is recorded as whitespace_substitution, and a
\* non-ASCII whitespace against a letter as whitespace_difference
C2_Witness ==
    /\ Analyzed
    /\ str1 = <<160, 160>>
    /\ str2 = <<32, 97>>
    /\ analysis.differences[1].type = "whitespace_substitution"
    /\ analysis.differences[2].type = "whitespace_difference"

\* C3: every index from the shorter length up to the longer length carries
\* exactly one difference, of kind insertion when str2 is longer and deletion
\* when str1 is longer; no index below the shorter length is an insertion or
\* a deletion; a report never holds both kinds; and when str2 = str1 + t the
\* differences are exactly len(t) insertions at positions len(str1)..len(str2)-1.
C3_LengthOverhang ==
    Analyzed =>
        LET ds == analysis.differences
            kinds == {ds[k].type : k \in DOMAIN ds}
        IN  /\ \A i \in MinLen..(MaxStrLen - 1) :
                /\ Cardinality(DiffsAt(i)) = 1
                /\ \A k \in DiffsAt(i) :
                       ds[k].type = IF Len(str2) > Len(str1) THEN "insertion" ELSE "deletion"
            /\ \A k \in DOMAIN ds :
                   ds[k].position < MinLen => ds[k].type \notin {"insertion", "deletion"}
            /\ ~({"insertion", "deletion"} \subseteq kinds)
            /\ (Len(str1) <= Len(str2) /\ SubSeq(str2, 1, Len(str1)) = str1) =>
                   /\ Len(ds) = Len(str2) - Len(str1)
                   /\ \A k \in DOMAIN ds :
                          ds[k].position = Len(str1) + k - 1 /\ ds[k].type = "insertion"

\* str2 is str1 with characters appended, and str1 is not empty
C3_Witness ==
    /\ Analyzed
    /\ Len(str1) >= 1
    /\ Len(str2) > Len(str1)
    /\ SubSeq(str2, 1, Len(str1)) = str1
    /\ analysis.diff_count = Len(str2) - Len(str1)
    /\ analysis.differences[1].type = "insertion"

\* C4: index i is recorded exactly when 0 <= i < max(len) and the characters
\* of the two strings at i (absent = empty) are unequal, each such index once
\* and with those two characters; nothing at another index matters.
C4_FixedOffset ==
    Analyzed =>
        /\ \A i \in 0..(MaxStrLen - 1) :
               Cardinality(DiffsAt(i)) = IF CharAt(str1, i) # CharAt(str2, i) THEN 1 ELSE 0
        /\ \A k \in DOMAIN analysis.differences :
               LET d == analysis.differences[k]
               IN  /\ d.position \in 0..(MaxStrLen - 1)
                   /\ d.char1 = CharAt(str1, d.position)
                   /\ d.char2 = CharAt(str2, d.position)

\* one character inserted at the front of str1: the shifted index 0
\* disagrees and is reported together with the overhang
C4_Witness ==
    /\ Analyzed
    /\ Len(str1) >= 1
    /\ Len(str2) = Len(str1) + 1
    /\ SubSeq(str2, 2, Len(str2)) = str1
    /\ str2[1] # str1[1]
    /\ Cardinality(DiffsAt(0)) = 1
    /\ analysis.diff_count >= 2

(***************************************************************************)
(* Properties of normalize_dataframes and compare_files (checked under     *)
(* Spec).  The two files hold the frames as loaded; ndf1, ndf2 are the     *)
(* aligned frames.                                                         *)
(***************************************************************************)
Aligned == pc \in {"normalized", "compared", "done"}
Done == pc = "done"

InA == fs[BaseFile]
InB == fs[TargetFile]

UnionColumns == Range(InA.columns) \cup Range(InB.columns)

\* the output out of normalize_dataframes for the input frame in
ColumnsAligned(in, out) ==
    /\ Range(out.columns) = UnionColumns
    /\ Len(out.columns) = Cardinality(UnionColumns)
    /\ \A i, j \in DOMAIN out.columns : i < j => str_lt(out.columns[i], out.columns[j])
    /\ \A r \in DOMAIN out.rows :
           /\ DOMAIN out.rows[r] = UnionColumns
           /\ \A c \in UnionColumns \ Range(in.columns) : out.rows[r][c] = <<>>
    /\ \A r \in DOMAIN in.rows : \A c \in Range(in.columns) :
           out.rows[r][c] = in.rows[r][c]

\* C5: both frames returned by normalize_dataframes have the same column
\* sequence, the union of the two inputs' column names in ascending str
\* order whatever the inputs' own order; a column an input lacked is the
\* empty string in every row of its output; cells of present columns keep
\* their values.
C5_ColumnAlignment ==
    Aligned =>
        /\ ndf1.columns = ndf2.columns
        /\ ColumnsAligned(InA, ndf1)
        /\ ColumnsAligned(InB, ndf2)

\* column sets {B, A} (in that order) and {AB, B}: canonical columns A, AB, B
C5_Witness ==
    /\ pc = "normalized"
    /\ InA.columns = <<(<<66>>), (<<65>>)>>
    /\ InB.columns = <<(<<65, 66>>), (<<66>>)>>
    /\ NRows(InA) >= 1
    /\ NRows(InB) >= 1
    /\ ndf1.columns = <<(<<65>>), (<<65, 66>>), (<<66>>)>>
    /\ ndf1.rows[1][<<65, 66>>] = <<>>
    /\ ndf2.rows[1][<<65>>] = <<>>
    /\ ndf1.rows[1][<<66>>] # <<>>

\* the output out has the input's rows first, in order, then only empty rows
RowsAligned(in, out) ==
    /\ NRows(out) = Max(NRows(InA), NRows(InB))
    /\ \A r \in 1..NRows(in) : \A c \in Range(in.columns) :
           out.rows[r][c] = in.rows[r][c]
    /\ \A r \in (NRows(in) + 1)..NRows(out) : \A c \in Range(out.columns) :
           out.rows[r][c] = <<>>

\* C6: both frames returned by normalize_dataframes have max(rA, rB) rows;
\* the first rows of each are its input's rows in their order, and every
\* row appended to the shorter one comes after them and is the empty string
\* in every canonical column.
C6_RowAlignment ==
    Aligned =>
        /\ RowsAligned(InA, ndf1)
        /\ RowsAligned(InB, ndf2)

\* the base frame is shorter, and its own row is not empty
C6_Witness ==
    /\ pc = "normalized"
    /\ NRows(InA) >= 1
    /\ NRows(InB) > NRows(InA)
    /\ NRows(ndf1) = NRows(InB)
    /\ \E c \in Range(InA.columns) : ndf1.rows[1][c] # <<>>
    /\ \A c \in Range(ndf1.columns) : ndf1.rows[NRows(ndf1)][c] = <<>>

\* C7: comparing a frame that has at least one row and one column with an
\* identical copy gives similarity 1.0, different_cells = 0, identical_cells =
\* total_cells and no difference record, whatever the two flags.
C7_SelfCompare ==
    (Done /\ InA = InB /\ NRows(InA) >= 1 /\ Len(InA.columns) >= 1) =>
        /\ result.similarity.num = result.similarity.den
        /\ result.similarity.num > 0
        /\ result.total_cells = NRows(InA) * Len(InA.columns)
        /\ result.different_cells = 0
        /\ result.identical_cells = result.total_cells
        /\ result.differences = <<>>

\* a frame holding "A" and "a " compared with itself under both flags
C7_Witness ==
    /\ Done
    /\ InA = InB
    /\ NRows(InA) >= 1
    /\ ignore_case
    /\ ignore_whitespace
    /\ \E r \in DOMAIN InA.rows : \E c \in Range(InA.columns) : InA.rows[r][c] = <<65>>
    /\ result.different_cells = 0
    /\ result.similarity.num = result.similarity.den

\* the value compared for a cell: trimmed when ignore_whitespace is set, then
\* lower-cased when ignore_case is set
Trimmed(v) == IF ignore_whitespace THEN strip(v) ELSE v
Normalized(v) == IF ignore_case THEN lower(Trimmed(v)) ELSE Trimmed(v)

\* the cells of the aligned frames: row r (from 1), canonical column i (from 1)
Cells == (1..NRows(ndf1)) \X (1..Len(ndf1.columns))
CellA(r, i) == ndf1.rows[r][ndf1.columns[i]]
CellB(r, i) == ndf2.rows[r][ndf2.columns[i]]

\* the difference records of cell (r, i)
RecordsOf(r, i) ==
    {k \in DOMAIN result.differences :
        result.differences[k].row = r - 1 /\ result.differences[k].col = i - 1}

\* C8: a cell pair yields no difference record, and counts as identical,
\* exactly when its two values are equal after trimming (ignore_whitespace)
\* and then lower-casing (ignore_case); with neither flag the raw values
\* must be equal.
C8_EqualityUnderNormalization ==
    Done =>
        /\ \A cell \in Cells :
               (RecordsOf(cell[1], cell[2]) = {})
                   <=> (Normalized(CellA(cell[1], cell[2])) = Normalized(CellB(cell[1], cell[2])))
        /\ result.identical_cells =
               Cardinality({cell \in Cells :
                   Normalized(CellA(cell[1], cell[2])) = Normalized(CellB(cell[1], cell[2]))})
        /\ (~ignore_case /\ ~ignore_whitespace) =>
               \A cell \in Cells :
                   (RecordsOf(cell[1], cell[2]) = {})
                       <=> (CellA(cell[1], cell[2]) = CellB(cell[1], cell[2]))

\* with ignore_whitespace alone "a " and "a" are identical while another
\* cell of the same comparison is recorded as different
C8_Witness ==
    /\ Done
    /\ ignore_whitespace
    /\ ~ignore_case
    /\ \E cell \in Cells :
           /\ CellA(cell[1], cell[2]) = <<97, 32>>
           /\ CellB(cell[1], cell[2]) = <<97>>
           /\ RecordsOf(cell[1], cell[2]) = {}
    /\ \E cell \in Cells : RecordsOf(cell[1], cell[2]) # {}
    /\ result.identical_cells >= 1
    /\ result.different_cells >= 1

\* C9: a difference record carries the two cells' values as they are in the
\* aligned frames (not trimmed, not lower-cased), while its analysis and its
\* char_diff_positions are the diff of the trimmed / lower-cased values.
C9_OriginalValuesNormalizedDiff ==
    Done =>
        \A k \in DOMAIN result.differences :
            LET d == result.differences[k]
                a == CellA(d.row + 1, d.col + 1)
                b == CellB(d.row + 1, d.col + 1)
                an == d.unicode_analysis
            IN  /\ d.original = a
                /\ d.target = b
                /\ an.str1_length = Len(Normalized(a))
                /\ an.str2_length = Len(Normalized(b))
                /\ Range(an.diff_positions) =
                       {i \in 0..(Max(Len(Normalized(a)), Len(Normalized(b))) - 1) :
                           CharAt(Normalized(a), i) # CharAt(Normalized(b), i)}
                /\ \A j \in DOMAIN an.differences :
                       /\ an.differences[j].char1 = CharAt(Normalized(a), an.differences[j].position)
                       /\ an.differences[j].char2 = CharAt(Normalized(b), an.differences[j].position)
                /\ d.char_diff_positions = an.diff_positions

\* U+00A0 + "A" against "a" with ignore_whitespace alone: the record keeps the
\* two-character original, the analysis is that of "A" against "a"
C9_Witness ==
    /\ Done
    /\ ignore_whitespace
    /\ ~ignore_case
    /\ \E k \in DOMAIN result.differences :
           /\ result.differences[k].original = <<160, 65>>
           /\ result.differences[k].target = <<97>>
           /\ result.differences[k].unicode_analysis.str1_length = 1
           /\ result.differences[k].char_diff_positions = <<0>>

(***************************************************************************)
(* Properties of batch_compare (checked under SpecBatch).                  *)
(***************************************************************************)
BatchDone == pc = "batch_done"

\* the comparison of the base with target t raises
Fails(t) == fs[BaseFile] = BadFile \/ fs[t] = BadFile

\* the entries of the returned mapping for target t
EntriesOf(t) == {i \in DOMAIN results : results[i].key = t}

\* C10: whatever targets fail, batch_compare runs through the whole list and
\* returns a mapping holding an entry for every target: None for a target
\* whose load or comparison fails, and for any other target its populated
\* ComparisonResult, also for the targets that come after a failing one.
C10_BatchFailureIsolation ==
    BatchDone =>
        /\ bi = Len(target_files)
        /\ {results[i].key : i \in DOMAIN results} = Range(target_files)
        /\ \A k \in DOMAIN target_files :
               LET t == target_files[k]
               IN  /\ Cardinality(EntriesOf(t)) = 1
                   /\ \A i \in EntriesOf(t) :
                          /\ (results[i].value = None) <=> Fails(t)
                          /\ ~Fails(t) =>
                                 /\ results[i].value.total_cells =
                                        Max(NRows(fs[BaseFile]), NRows(fs[t])) *
                                        Cardinality(Range(fs[BaseFile].columns) \cup Range(fs[t].columns))
                                 /\ results[i].value.identical_cells + results[i].value.different_cells
                                        = results[i].value.total_cells
                                 /\ Len(results[i].value.differences) = results[i].value.different_cells
                                 /\ results[i].value =
                                        compare_files(fs, BaseFile, t, ignore_case, ignore_whitespace)

\* three distinct targets of which only the second cannot be loaded
C10_Witness ==
    /\ BatchDone
    /\ Len(target_files) = 3
    /\ Cardinality(Range(target_files)) = 3
    /\ fs[BaseFile] # BadFile
    /\ fs[target_files[1]] # BadFile
    /\ fs[target_files[2]] = BadFile
    /\ fs[target_files[3]] # BadFile
    /\ Len(results) = 3
    /\ results[1].value # None
    /\ results[2].value = None
    /\ results[3].value # None

\* position of the first occurrence of target t in the input list
FirstIndex(t) == CHOOSE k \in DOMAIN target_files :
                     target_files[k] = t /\ \A j \in 1..(k - 1) : target_files[j] # t

\* C11: the entries of the mapping are in the order of the input list (a
\* target's place is that of its first occurrence), and the targets are
\* handled one after another in that order: when bi targets have been
\* handled, the mapping holds exactly the first bi targets of the list, the
\* outcome of target bi included, and nothing of a later target.
C11_BatchOrderSequential ==
    (pc \in {"batch", "batch_done"}) =>
        /\ bi \in 0..Len(target_files)
        /\ {results[i].key : i \in DOMAIN results} = {target_files[k] : k \in 1..bi}
        /\ \A i, j \in DOMAIN results :
               i < j => FirstIndex(results[i].key) < FirstIndex(results[j].key)
        /\ bi >= 1 =>
               \A i \in EntriesOf(target_files[bi]) :
                   (results[i].value = None) <=> Fails(target_files[bi])
        /\ BatchDone => bi = Len(target_files)

\* three distinct targets given in the order t3, t1, t2
C11_Witness ==
    /\ BatchDone
    /\ target_files = <<"t3", "t1", "t2">>
    /\ Len(results) = 3
    /\ results[1].key = "t3"
    /\ results[2].key = "t1"
    /\ results[3].key = "t2"

(***************************************************************************)
(* Properties of the ComparisonResult (checked under Spec).                *)
(***************************************************************************)
\* C12: similarity is identical_cells / total_cells when total_cells > 0; when
\* the aligned frames have no cell the call still returns, with similarity 0
\* and total_cells = 0; similarity always lies between 0 and 1; the call
\* raises only when a file cannot be loaded.
C12_SimilarityRatio ==
    /\ Done =>
          /\ result # Raised
          /\ result.total_cells > 0 =>
                 /\ result.similarity.num = result.identical_cells
                 /\ result.similarity.den = result.total_cells
          /\ NRows(ndf1) * Len(ndf1.columns) = 0 =>
                 /\ result.total_cells = 0
                 /\ result.similarity.num = 0
          /\ result.similarity.den > 0
          /\ 0 <= result.similarity.num
          /\ result.similarity.num <= result.similarity.den
    /\ pc = "raised" => (InA = BadFile \/ InB = BadFile)

\* two header-only files: no row, no cell
C12_Witness ==
    /\ Done
    /\ NRows(InA) = 0
    /\ NRows(InB) = 0
    /\ result.total_cells = 0
    /\ result.similarity.num = 0

\* C13: file_info gives, for the base and for the target, the row count and
\* the column count of that file as loaded, not those of the aligned frames.
C13_FileInfoOwnShape ==
    Done =>
        /\ result.file_info.base_file.rows = NRows(InA)
        /\ result.file_info.base_file.columns = Len(InA.columns)
        /\ result.file_info.target_file.rows = NRows(InB)
        /\ result.file_info.target_file.columns = Len(InB.columns)

\* C17: total_cells is aligned rows times aligned columns, identical_cells +
\* different_cells = total_cells, there are different_cells difference
\* records, and every cell of the aligned grid is counted once: as different
\* when it has a record (never more than one), as identical when it has none.
C17_CellAccounting ==
    Done =>
        /\ result.total_cells = NRows(ndf1) * Len(ndf1.columns)
        /\ result.total_cells = Cardinality(Cells)
        /\ result.identical_cells + result.different_cells = result.total_cells
        /\ Len(result.differences) = result.different_cells
        /\ \A cell \in Cells : Cardinality(RecordsOf(cell[1], cell[2])) <= 1
        /\ result.different_cells =
               Cardinality({cell \in Cells : RecordsOf(cell[1], cell[2]) # {}})
        /\ result.identical_cells =
               Cardinality({cell \in Cells : RecordsOf(cell[1], cell[2]) = {}})
        /\ \A k \in DOMAIN result.differences :
               <<result.differences[k].row + 1, result.differences[k].col + 1>> \in Cells
        /\ result.summary.total_cells = result.total_cells
        /\ result.summary.identical_cells = result.identical_cells
        /\ result.summary.different_cells = result.different_cells

\* a grid of at least two rows and two columns with cells of both kinds
C17_Witness ==
    /\ Done
    /\ NRows(ndf1) >= 2
    /\ Len(ndf1.columns) >= 2
    /\ result.identical_cells >= 1
    /\ result.different_cells >= 2
    /\ result.total_cells = NRows(ndf1) * Len(ndf1.columns)

\* C18: the difference records are in row-major order (by row, within a row
\* by canonical column index), col is the index of col_name in the canonical
\* column order, no (row, col) pair occurs twice, and row and col lie inside
\* the aligned grid.
C18_RowMajorOrder ==
    Done =>
        /\ \A i, j \in DOMAIN result.differences :
               i < j =>
                   \/ result.differences[i].row < result.differences[j].row
                   \/ /\ result.differences[i].row = result.differences[j].row
                      /\ result.differences[i].col < result.differences[j].col
        /\ \A k \in DOMAIN result.differences :
               LET d == result.differences[k]
               IN  /\ d.row \in 0..(NRows(ndf1) - 1)
                   /\ d.col \in 0..(Len(ndf1.columns) - 1)
                   /\ ndf1.columns[d.col + 1] = d.col_name
        /\ \A i, j \in DOMAIN ndf1.columns :
               i < j => str_lt(ndf1.columns[i], ndf1.columns[j])

\* records in two rows and two columns: (0,0), (0,1), (1,0) in that order
C18_Witness ==
    /\ Done
    /\ Len(result.differences) >= 3
    /\ result.differences[1].row = 0
    /\ result.differences[1].col = 0
    /\ result.differences[2].row = 0
    /\ result.differences[2].col = 1
    /\ result.differences[3].row = 1
    /\ result.differences[3].col = 0

\* C19: after normalize_dataframes returns, the two frames the caller passed
\* still have the columns, the rows and the cells they had before the call.
C19_InputsNotMutated ==
    Aligned =>
        /\ df1 = InA
        /\ df2 = InB

(***************************************************************************)
(* Properties of the classification and of the special-character scan      *)
(* (checked under SpecStr and SpecChar).                                   *)
(***************************************************************************)
Kinds == {"insertion", "deletion", "whitespace_substitution", "whitespace_difference",
          "unicode_difference", "character_substitution"}

\* C14: every recorded difference has one of the six kinds, the one the
\* priority order selects: insertion when the first character is absent,
\* else deletion when the second is absent, else whitespace_substitution
\* when both are whitespace, else whitespace_difference when one is, else
\* unicode_difference when a code point exceeds 127, else
\* character_substitution.  No Unicode normalization takes place: a composed
\* letter against its base letter is unicode_difference.
C14_ClassificationPriority ==
    Analyzed =>
        \A k \in DOMAIN analysis.differences :
            LET d == analysis.differences[k]
                both == d.char1 # <<>> /\ d.char2 # <<>>
                ws1 == d.char1[1] \in SpaceCodes
                ws2 == d.char2[1] \in SpaceCodes
                wide == d.char1[1] > 127 \/ d.char2[1] > 127
            IN  /\ d.type \in Kinds
                /\ d.type = "insertion" <=> d.char1 = <<>>
                /\ d.type = "deletion" <=> (d.char1 # <<>> /\ d.char2 = <<>>)
                /\ d.type = "whitespace_substitution" <=> (both /\ ws1 /\ ws2)
                /\ d.type = "whitespace_difference" <=> (both /\ (ws1 # ws2))
                /\ d.type = "unicode_difference" <=> (both /\ ~ws1 /\ ~ws2 /\ wide)
                /\ d.type = "character_substitution" <=> (both /\ ~ws1 /\ ~ws2 /\ ~wide)

\* U+00E9 against "e" + U+0301: unicode_difference where they diverge, then an insertion
C14_Witness ==
    /\ Analyzed
    /\ str1 = <<233>>
    /\ str2 = <<101, 769>>
    /\ analysis.diff_count = 2
    /\ analysis.differences[1].position = 0
    /\ analysis.differences[1].type = "unicode_difference"
    /\ analysis.differences[2].type = "insertion"

\* the scan result found is the one the string text alone determines
ScanOf(text, found) ==
    /\ \A i, j \in DOMAIN found : i < j => found[i].position < found[j].position
    /\ {found[k].position : k \in DOMAIN found} =
           {i \in 0..(Len(text) - 1) :
               text[i + 1] \in special_chars \/ text[i + 1] \in NonPrintableCodes}
    /\ {found[k].position : k \in DOMAIN found} =
           {i \in 0..(Len(text) - 1) : get_char_info(CharAt(text, i)).is_invisible}
    /\ \A k \in DOMAIN found :
           /\ found[k].char_info.char = CharAt(text, found[k].position)
           /\ found[k].char_info.is_invisible = TRUE

\* C15: the special characters reported for a string are, in increasing
\* position order, exactly its positions holding a non-printable character or
\* a key of the curated table, which are exactly the positions whose
\* CharacterInfo is flagged is_invisible; they are determined by that string
\* alone, whatever the other string and wherever the two strings differ.
C15_SpecialCharScan ==
    Analyzed =>
        /\ ScanOf(str1, analysis.str1_special_chars)
        /\ ScanOf(str2, analysis.str2_special_chars)
        /\ str1 = str2 => analysis.str1_special_chars = analysis.str2_special_chars

\* a space (printable, in the table) where the strings agree, a mismatch elsewhere
C15_Witness ==
    /\ Analyzed
    /\ str1 = <<32, 97>>
    /\ str2 = <<32, 65>>
    /\ analysis.diff_positions = <<1>>
    /\ Len(analysis.str1_special_chars) = 1
    /\ analysis.str1_special_chars[1].position = 0
    /\ analysis.str1_special_chars[1].char_info.is_printable = TRUE

\* C16: every code point the design lists for the curated table is a key of
\* it: such a character gets a curated name, is flagged is_invisible and is
\* collected by the special-character scan.
C16_ListedCodesCurated ==
    (Analyzed /\ Len(str1) = 1 /\ str1[1] \in ListedCodes) =>
        /\ str1[1] \in special_chars
        /\ Len(analysis.str1_special_chars) = 1
        /\ analysis.str1_special_chars[1].char_info.name # ""
        /\ analysis.str1_special_chars[1].char_info.is_invisible = TRUE

(***************************************************************************)
(* Property of the summary printed by the command line (checked under      *)
(* Spec).                                                                  *)
(***************************************************************************)
\* C20: print_summary completes for every ComparisonResult compare_files
\* returns, one with total_cells = 0 included, so the 'compare' command ends
\* with status 1 only when compare_files itself raised.
C20_SummaryNeverRaises ==
    /\ Done => print_summary(result) = Printed
    /\ pc = "cli_exit1" => result = Raised

\* the sum of the counts of a diff_types dict
RECURSIVE SumCounts(_)
SumCounts(counts) ==
    IF DOMAIN counts = {} THEN 0
    ELSE LET t == CHOOSE x \in DOMAIN counts : TRUE
         IN  counts[t] + SumCounts([x \in DOMAIN counts \ {t} |-> counts[x]])

\* C21: every report of analyze_difference(a, b) is consistent: are_equal is
\* true exactly when the differences list is empty, diff_count is the length
\* of that list and the sum of the counts in diff_types, diff_positions is the
\* strictly increasing list of the differences' positions, each in
\* [0, max(len(a), len(b))), and length_diff is len(b) - len(a)
C21_ReportConsistency ==
    Analyzed =>
        /\ analysis.are_equal <=> (analysis.differences = <<>>)
        /\ analysis.diff_count = Len(analysis.differences)
        /\ analysis.diff_count = SumCounts(analysis.diff_types)
        /\ DOMAIN analysis.diff_positions = DOMAIN analysis.differences
        /\ \A k \in DOMAIN analysis.differences :
              /\ analysis.diff_positions[k] = analysis.differences[k].position
              /\ analysis.diff_positions[k] \in 0..(MaxStrLen - 1)
        /\ \A j, k \in DOMAIN analysis.diff_positions :
              j < k => analysis.diff_positions[j] < analysis.diff_positions[k]
        /\ analysis.length_diff = Len(str2) - Len(str1)

\* "é" against "e" + combining acute: two differences of two kinds, one of
\* them past the end of the shorter string
C21_Witness ==
    /\ Analyzed
    /\ str1 = <<233>>
    /\ str2 = <<101, 769>>
    /\ ~analysis.are_equal
    /\ analysis.diff_count = 2
    /\ Cardinality(DOMAIN analysis.diff_types) = 2
    /\ analysis.diff_positions = <<0, 1>>
    /\ analysis.length_diff = 1

Targets == Range(target_files)
LastOccurrence(t) == CHOOSE k \in DOMAIN target_files :
    target_files[k] = t /\ \A j \in (k + 1)..Len(target_files) : target_files[j] # t
\* the number of distinct targets among the first k of the list
DistinctUpTo(k) == Cardinality({target_files[j] : j \in 1..k})
Recorded(outcome) == IF outcome = Raised THEN None ELSE outcome

\* C22: when a target occurs more than once in the list given to
\* batch_compare, the returned mapping holds a single entry for it, at the
\* place of its first occurrence and with the outcome (result or None) of its
\* last occurrence; the mapping has as many entries as there are distinct
\* targets
C22_DuplicateTargets ==
    BatchDone =>
        /\ Len(results) = Cardinality(Targets)
        /\ Len(outcomes) = Len(target_files)
        /\ \A t \in Targets :
              /\ Cardinality(EntriesOf(t)) = 1
              /\ \A i \in EntriesOf(t) :
                    /\ i = DistinctUpTo(FirstIndex(t))
                    /\ results[i].value = Recorded(outcomes[LastOccurrence(t)])

\* t1, t2, t1 with t1 readable at its first occurrence and unreadable at its
\* last: three targets processed, two entries, t1 first and mapped to None
C22_Witness ==
    /\ BatchDone
    /\ target_files = <<"t1", "t2", "t1">>
    /\ outcomes[1] # Raised
    /\ outcomes[3] = Raised
    /\ Len(results) = 2
    /\ Len(results) < Len(target_files)
    /\ results[1].key = "t1"
    /\ results[1].value = None
    /\ results[2].key = "t2"

\* C23: the base file is loaded again for every target, so when it cannot be
\* loaded batch_compare still returns, with every target mapped to None, also
\* the targets that load; and a comparison keeps nothing from the earlier
\* targets: every iteration gives what compare_files(base, target) gives on
\* its own, so every result in the mapping is that value
C23_BaseFailure ==
    BatchDone =>
        /\ bi = Len(target_files)
        /\ Len(outcomes) = Len(target_files)
        /\ fs[BaseFile] = BadFile =>
              /\ \A k \in DOMAIN outcomes : outcomes[k] = Raised
              /\ {results[i].key : i \in DOMAIN results} = Targets
              /\ \A i \in DOMAIN results : results[i].value = None
        /\ \A k \in DOMAIN outcomes :
              outcomes[k] = compare_files(fs, BaseFile, target_files[k],
                                          ignore_case, ignore_whitespace)
        /\ \A i \in DOMAIN results :
              results[i].value # None =>
                  results[i].value = compare_files(fs, BaseFile, results[i].key,
                                                   ignore_case, ignore_whitespace)

\* an unreadable base with three readable targets: three entries, all None
C23_Witness ==
    /\ BatchDone
    /\ fs[BaseFile] = BadFile
    /\ target_files = <<"t1", "t2", "t3">>
    /\ \A t \in Targets : fs[t] # BadFile
    /\ fs["t1"] # fs["t2"]
    /\ Len(results) = 3
    /\ \A i \in DOMAIN results : results[i].value = None

====
